---- MODULE Spec2Model ----
(***************************************************************************)
(* Model of the playlist harvester (spotify_utils.get_playlist_tracks with *)
(* its progress store), of the download resolver                          *)
(* (youtube_utils.download_song driven by main.download_mp3s) and of a   *)
(* whole run of main.py, from the connection test to the exit code.       *)
(***************************************************************************)
EXTENDS Integers, Sequences, FiniteSets, TLC

\* ------------------------------------------------------------------ bounds
\* Largest number of playlist entries the catalog service serves in one run.
MaxItems == 11
\* Entries per full page of the catalog service.
PageLimit == 5
\* Irregular events in one run: irregular playlist entries (null entry, track
\* without artists, track with two artists, repeated track) and soft
\* enrichment faults (artist lookup answering None, link resolver failing).
MaxOdd == 1
\* Tracks in the metadata artifact of the download phase.
MaxMeta == 2

\* --------------------------------------------------------- program constants
\* spotify_utils.py:256  "if track_count % 10 == 0"
SAVE_EVERY == 10

VARIABLES
    \* files
    ckpt,               \* metadata/download_progress.json
    ckptBy,             \* which save wrote ckpt: "none", "periodic", "abort", "final",
                        \* "interrupted"
    metadata,           \* metadata/spotify_playlist_metadata.json
    songs,              \* ids i with songs/<i>.mp3 on disk
    \* catalog service, as seen by the harvesting run
    source,             \* pages served to the most recent harvesting run
    odd,                \* irregular events of this run
    \* get_playlist_tracks
    pc,
    results,            \* index in source of the page held in `results` (0: none)
    k,                  \* entries of the current page already taken by the for loop
    track,              \* the entry being processed
    i,                  \* enumerate index of the artist being looked up (from 1)
    genres,
    artist_popularity,
    artists,
    tracks,
    track_count,
    result,             \* value returned by get_playlist_tracks
    raised,             \* exception that left get_playlist_tracks
    \* history of the run
    saves,              \* current_index of every save_progress call, in order
    lastCall,           \* site and outcome of the latest catalog-service call
    calls,              \* catalog-service calls issued
    skipped,            \* tracks dropped by the generic "except Exception" handler
    resumed,            \* the run returned the checkpoint's tracks
    \* download phase
    dpc,
    caller,             \* "batch" (download_mp3s) or "direct" (download_song called alone)
    dl_tracks,          \* tracks loaded by load_metadata
    cur,                \* 1-based index of the track at hand
    success_count,
    fail_count,
    ds_return,          \* value returned by the latest download_song: "True", "False", "none"
    probes,             \* per track index: validation probes (extract_info) issued
    directs,            \* per track index: direct downloads issued
    searches,           \* per track index: search downloads issued
    entered,            \* per track index: download_song calls
    absentAtTurn,       \* per track index: output file was absent when its turn came
    validOk,            \* the latest validation of the current call succeeded
    directOk,           \* the latest direct download of the current call succeeded
    searchRes,          \* search of the current call: "none", "ok", "failed", "raised"
    interrupted,        \* KeyboardInterrupt reached download_mp3s
    download_success,   \* value returned by download_mp3s: "True", "False", "none"
    \* main.py
    url_file,           \* first line of spotify_playlist.txt
    main_calls,         \* catalog-service calls issued by fetch_spotify_metadata itself
    failure,            \* condition reported when the run failed: "none", ...
    exit_code           \* exit code of the process; -1 while it runs

fvars == <<ckpt, ckptBy, metadata, songs>>
hvars == <<source, odd, pc, results, k, track, i, genres, artist_popularity, artists,
           tracks, track_count, result, raised, saves, lastCall, calls, skipped, resumed>>
dvars == <<dpc, caller, dl_tracks, cur, success_count, fail_count, ds_return, probes,
           directs, searches, entered, absentAtTurn, validOk, directOk, searchRes,
           interrupted, download_success>>
mvars == <<url_file, main_calls, failure, exit_code>>
vars == <<fvars, hvars, dvars, mvars>>

\* ------------------------------------------------------------ progress store
NoCheckpoint == [state |-> "absent", tracks |-> <<>>, current_index |-> 0, total_tracks |-> 0]

\* A save that leaves out the track appended last.
save_progress_DropLast(ts, current_index) ==
    [state |-> "intact", tracks |-> SubSeq(ts, 1, Len(ts) - 1),
     current_index |-> current_index, total_tracks |-> Len(ts) - 1]

\* save_progress(tracks, current_index): the file content after the write.
save_progress(ts, current_index) ==
    [state |-> "intact", tracks |-> ts, current_index |-> current_index,
     total_tracks |-> Len(ts)]

\* The file after open(PROGRESS_FILE, "w") truncated it and json.dump was cut
\* short: empty, or a prefix of the JSON text (never a complete JSON value).
TornCheckpoint == [state |-> "corrupt", tracks |-> <<>>, current_index |-> 0,
                   total_tracks |-> 0]

\* A load whose json.load is not guarded by the "except Exception" handler.
load_progress_NoHandler(file) ==
    IF file.state = "intact"
    THEN [tracks |-> file.tracks, current_index |-> file.current_index,
          raises |-> "none"]
    ELSE [tracks |-> <<>>, current_index |-> 0,
          raises |-> IF file.state = "corrupt" THEN "JSONDecodeError" ELSE "none"]

\* load_progress(): (tracks, current_index); ([], 0) when the file is absent or
\* when reading it fails (json.load of a torn file raises inside the try block).
load_progress(file) ==
    IF file.state = "intact"
    THEN [tracks |-> file.tracks, current_index |-> file.current_index,
          raises |-> "none"]
    ELSE [tracks |-> <<>>, current_index |-> 0, raises |-> "none"]

\* ------------------------------------------------------------ catalog service
\* A playlist entry: item['track'] is None for kind "null"; otherwise a track
\* with its id and the ids of its artists.
NullItem == [kind |-> "null", id |-> 0, artists |-> <<>>]

OddKinds == {"null", "noartist", "duo", "dup"}

\* The entry of kind kd at playlist position p (positions count from 1).
MkItem(kd, p) ==
    CASE kd = "plain"    -> [kind |-> kd, id |-> p, artists |-> <<1>>]
      [] kd = "null"     -> NullItem
      [] kd = "noartist" -> [kind |-> kd, id |-> p, artists |-> <<>>]
      [] kd = "duo"      -> [kind |-> kd, id |-> p, artists |-> <<1, 2>>]
      [] kd = "dup"      -> [kind |-> kd, id |-> 1, artists |-> <<1>>]

OddIn(page) == Cardinality({j \in 1..Len(page.items) : page.items[j].kind # "plain"})

\* The pages the service may answer with after `base` entries were served, with
\* at most rem irregular entries: a page that announces a next page is full.
PageChoices(base, rem) ==
    UNION { UNION { { [items |-> [j \in 1..m |->
                                    MkItem(IF j \in S THEN kf[j] ELSE "plain", base + j)],
                       next  |-> nx]
                      : kf \in {g \in [S -> OddKinds] :
                                  \A j \in S : g[j] = "dup" => base + j > 1},
                        nx \in {FALSE} \cup
                               (IF m = PageLimit /\ base + m < MaxItems THEN {TRUE} ELSE {}) }
                    : S \in {T \in SUBSET (1..m) : Cardinality(T) <= rem} }
            : m \in {n \in 0..PageLimit : base + n <= MaxItems /\ (n = 0 => base = 0)} }

RECURSIVE Served(_)
\* Number of entries in a sequence of pages.
Served(pages) ==
    IF pages = <<>> THEN 0 ELSE Len(pages[1].items) + Served(Tail(pages))

\* What sp.artist(artist_id) answers for artist a when the call succeeds.
ArtistRecord(a) == [genres |-> {a}, popularity |-> 10 * a]

\* Raw outcome of one catalog-service call.
OkOutcome == [exc |-> "none", http_status |-> 0, quota_msg |-> FALSE]
CallOutcomes ==
    {OkOutcome}
    \cup [exc : {"SpotifyException"}, http_status : {429, 401, 404}, quota_msg : BOOLEAN]
    \cup {[exc |-> "Exception", http_status |-> 0, quota_msg |-> FALSE]}

\* safe_spotify_call without its catch-all handler: an exception that is not a
\* SpotifyException leaves it unchanged.
safe_spotify_call_NoCatchAll(o) ==
    IF o.exc = "none" THEN "none"
    ELSE IF o.exc = "SpotifyException"
         THEN IF o.http_status = 429 \/ o.quota_msg THEN "SpotifyQuotaExceeded"
              ELSE "SpotifyConnectionError"
         ELSE "Exception"

\* safe_spotify_call: the exception it raises for a raw outcome ("none": it returns).
safe_spotify_call(o) ==
    IF o.exc = "none" THEN "none"
    ELSE IF o.exc = "SpotifyException"
         THEN IF o.http_status = 429 THEN "SpotifyQuotaExceeded"
              ELSE IF o.quota_msg THEN "SpotifyQuotaExceeded"
              ELSE IF o.http_status = 401 THEN "SpotifyConnectionError"
              ELSE "SpotifyConnectionError"
         ELSE "SpotifyConnectionError"

\* get_artist_metadata(artist_id): quota and connection errors are re-raised,
\* any other exception yields the defaults. answerNone says sp.artist returned
\* None, which makes artist.get raise AttributeError inside the try.
get_artist_metadata(a, o, answerNone) ==
    LET exc == safe_spotify_call(o) IN
    IF exc \in {"SpotifyQuotaExceeded", "SpotifyConnectionError"}
    THEN [raises |-> exc, genres |-> {}, popularity |-> 0]
    ELSE IF exc # "none" \/ answerNone
         THEN [raises |-> "none", genres |-> {}, popularity |-> 0]
         ELSE [raises |-> "none", genres |-> ArtistRecord(a).genres,
               popularity |-> ArtistRecord(a).popularity]

\* get_odesli_links: the youtube link it may return for a track.
YoutubeLink == "https://youtu.be/x"
NoLink == "None"

\* ------------------------------------------------------ get_playlist_tracks
NoCall == [site |-> "none", outcome |-> OkOutcome]

\* The abort handlers saving the cursor of the track that failed.
AbortCursor_Current(tc) == tc

\* The abort handlers calling save_progress(tracks), with its default cursor.
AbortCursor_Default(tc) == 0

\* Cursor saved by the two abort handlers of the per-track try blocks.
AbortCursor(tc) == tc - 1

\* "Save progress every 10 tracks"
PeriodicDue(tc) == tc % SAVE_EVERY = 0

\* A resumption that leaves out the head of the stored sequence.
ResumeResult_FromCursor(existing_tracks) == Tail(existing_tracks)

\* Value returned when the user accepts to continue from the checkpoint
\* (line 185: "return existing_tracks").
ResumeResult(existing_tracks) == existing_tracks

\* track_data as appended to tracks.
TrackData(it, link, pop, arts, gen) ==
    [spotify_id |-> it.id, youtube_url |-> link, artist_popularity |-> pop,
     artists |-> arts, genres |-> gen]

\* A harvest that puts each new track in front of the earlier ones.
AppendTrack_Front(ts, track_data) == <<track_data>> \o ts

\* Line 253: tracks.append(track_data).
AppendTrack(ts, track_data) == Append(ts, track_data)

HarvestLocalsInit ==
    /\ pc = "start"
    /\ results = 0
    /\ k = 0
    /\ track = NullItem
    /\ i = 0
    /\ genres = {}
    /\ artist_popularity = 0
    /\ artists = <<>>
    /\ tracks = <<>>
    /\ track_count = 0
    /\ result = <<>>
    /\ raised = "none"
    /\ saves = <<>>
    /\ lastCall = NoCall
    /\ calls = 0
    /\ skipped = 0
    /\ resumed = FALSE

DownloadIdle ==
    /\ dpc = "idle"
    /\ caller = "batch"
    /\ dl_tracks = <<>>
    /\ cur = 0
    /\ success_count = 0
    /\ fail_count = 0
    /\ ds_return = "none"
    /\ probes = <<>>
    /\ directs = <<>>
    /\ searches = <<>>
    /\ entered = <<>>
    /\ absentAtTurn = <<>>
    /\ validOk = FALSE
    /\ directOk = FALSE
    /\ searchRes = "none"
    /\ interrupted = FALSE
    /\ download_success = "none"

\* Prefix required by read_playlist_url_from_file (spotify_utils.py:119).
PlaylistPrefix == "https://open.spotify.com/playlist/"

\* First lines of spotify_playlist.txt, as the text before and after the last
\* "/" of the path: a playlist link, an album link, an empty line.
PlaylistFiles ==
    { [head |-> PlaylistPrefix, rest |-> "37i9dQ"],
      [head |-> "https://open.spotify.com/album/", rest |-> "37i9dQ"],
      [head |-> "", rest |-> ""] }

\* main.py before fetch_spotify_metadata: a playlist link is in the file.
MainIdle ==
    /\ url_file = [head |-> PlaylistPrefix, rest |-> "37i9dQ"]
    /\ main_calls = 0
    /\ failure = "none"
    /\ exit_code = -1

\* No metadata artifact on disk.
NoMetadata == [state |-> "absent", tracks |-> <<>>]

Init ==
    /\ ckpt = NoCheckpoint
    /\ ckptBy = "none"
    /\ metadata = NoMetadata
    /\ songs = {}
    /\ source = <<>>
    /\ odd = 0
    /\ HarvestLocalsInit
    /\ DownloadIdle
    /\ MainIdle

\* Lines 176-187: load the checkpoint, offer to continue, else start afresh.
Start ==
    /\ pc = "start"
    /\ LET p == load_progress(ckpt) IN
       IF p.raises # "none"
       THEN /\ raised' = p.raises
            /\ pc' = "raised"
            /\ UNCHANGED <<ckpt, ckptBy, result, resumed, source, odd>>
       ELSE IF p.tracks # <<>>
       THEN /\ UNCHANGED raised
            /\ \E user_input \in {"y", "n"} :
              IF user_input = "y"
              THEN /\ result' = ResumeResult(p.tracks)
                   /\ resumed' = TRUE
                   /\ pc' = "returned"
                   /\ UNCHANGED <<ckpt, ckptBy, source, odd>>
              ELSE /\ ckpt' = NoCheckpoint
                   /\ ckptBy' = "none"
                   /\ pc' = "fetch"
                   /\ source' = <<>>
                   /\ odd' = 0
                   /\ UNCHANGED <<result, resumed>>
       ELSE /\ pc' = "fetch"
            /\ UNCHANGED <<ckpt, ckptBy, result, resumed, source, odd, raised>>
    /\ UNCHANGED <<metadata, songs, results, k, track, i, genres,
                   artist_popularity, artists, tracks, track_count, saves,
                   lastCall, calls, skipped, dvars, mvars>>

\* Lines 189-196: the first page; a rejected call makes the function return [].
FetchFirst ==
    /\ pc = "fetch"
    /\ \E o \in CallOutcomes :
         /\ lastCall' = [site |-> "playlist_items", outcome |-> o]
         /\ calls' = calls + 1
         /\ IF safe_spotify_call(o) = "none"
            THEN \E page \in PageChoices(0, MaxOdd) :
                   /\ source' = <<page>>
                   /\ odd' = OddIn(page)
                   /\ results' = 1
                   /\ k' = 0
                   /\ pc' = "item"
                   /\ UNCHANGED <<result, raised>>
            ELSE /\ IF safe_spotify_call(o) \in {"SpotifyQuotaExceeded",
                                                 "SpotifyConnectionError"}
                    THEN result' = <<>> /\ pc' = "returned" /\ UNCHANGED raised
                    ELSE raised' = safe_spotify_call(o) /\ pc' = "raised"
                                                        /\ UNCHANGED result
                 /\ source' = <<>>
                 /\ odd' = 0
                 /\ UNCHANGED <<results, k>>
    /\ UNCHANGED <<fvars, track, i, genres, artist_popularity, artists, tracks,
                   track_count, saves, skipped, resumed, dvars, mvars>>

\* Lines 199-217: take the next entry of the page; a null track is passed over.
NextItem ==
    /\ pc = "item"
    /\ k < Len(source[results].items)
    /\ k' = k + 1
    /\ LET it == source[results].items[k + 1] IN
       IF it.kind = "null"
       THEN UNCHANGED <<pc, track, track_count, artists, genres, artist_popularity, i>>
       ELSE /\ track' = it
            /\ track_count' = track_count + 1
            /\ artists' = <<>>
            /\ genres' = {}
            /\ artist_popularity' = 0
            /\ i' = 1
            /\ pc' = IF Len(it.artists) = 0 THEN "finish" ELSE "artist"
    /\ UNCHANGED <<fvars, source, odd, results, tracks, result, raised, saves,
                   lastCall, calls, skipped, resumed, dvars, mvars>>

\* Lines 219-229 and 259-262: one artist lookup. A quota or connection error is
\* handled by the inner handler and again by the outer one: both save, both raise.
ArtistLookup ==
    /\ pc = "artist"
    /\ \E o \in CallOutcomes, answerNone \in BOOLEAN :
         /\ answerNone => (o = OkOutcome /\ odd < MaxOdd)
         /\ LET a == track.artists[i]
                m == get_artist_metadata(a, o, answerNone)
                c == AbortCursor(track_count)
            IN /\ lastCall' = [site |-> "artist", outcome |-> o]
               /\ calls' = calls + 1
               /\ artists' = Append(artists, [name |-> a, role |-> "primary"])
               /\ IF m.raises = "none"
                  THEN /\ genres' = genres \cup m.genres
                       /\ artist_popularity' = IF i = 1 THEN m.popularity
                                               ELSE artist_popularity
                       /\ i' = i + 1
                       /\ pc' = IF i = Len(track.artists) THEN "finish" ELSE "artist"
                       /\ odd' = IF answerNone THEN odd + 1 ELSE odd
                       /\ UNCHANGED <<ckpt, ckptBy, saves, raised>>
                  ELSE /\ ckpt' = save_progress(tracks, c)
                       /\ ckptBy' = "abort"
                       /\ saves' = saves \o <<c, c>>
                       /\ raised' = m.raises
                       /\ pc' = "raised"
                       /\ UNCHANGED <<genres, artist_popularity, i, odd>>
    /\ UNCHANGED <<metadata, songs, source, results, k, track, tracks, track_count,
                   result, skipped, resumed, dvars, mvars>>

\* Lines 231-265: album, link resolution, append, periodic save. A track without
\* artists raises IndexError at artists[0]: the generic handler drops the track.
FinishTrack ==
    /\ pc = "finish"
    /\ IF Len(artists) = 0
       THEN /\ skipped' = skipped + 1
            /\ UNCHANGED <<tracks, ckpt, ckptBy, saves, odd>>
       ELSE \E link \in {YoutubeLink, NoLink} :
              /\ link = NoLink => odd < MaxOdd
              /\ odd' = IF link = NoLink THEN odd + 1 ELSE odd
              /\ tracks' = AppendTrack(tracks, TrackData(track, link, artist_popularity,
                                                         artists, genres))
              /\ IF PeriodicDue(track_count)
                 THEN /\ ckpt' = save_progress(tracks', track_count)
                      /\ ckptBy' = "periodic"
                      /\ saves' = Append(saves, track_count)
                 ELSE UNCHANGED <<ckpt, ckptBy, saves>>
              /\ UNCHANGED skipped
    /\ pc' = "item"
    /\ UNCHANGED <<metadata, songs, source, results, k, track, i, genres,
                   artist_popularity, artists, track_count, result, raised, lastCall,
                   calls, resumed, dvars, mvars>>

\* A harvest that reads the first page only.
MorePages_Never(page) == FALSE

\* Line 269: results.get("next"), the next-page cursor of the page at hand.
MorePages(page) == page.next

\* Lines 267-276 with a next-page cursor: fetch the next page, or save and raise.
NextPage ==
    /\ pc = "item"
    /\ k = Len(source[results].items)
    /\ MorePages(source[results])
    /\ \E o \in CallOutcomes :
         /\ lastCall' = [site |-> "next", outcome |-> o]
         /\ calls' = calls + 1
         /\ IF safe_spotify_call(o) = "none"
            THEN \E page \in PageChoices(Served(source), MaxOdd - odd) :
                   /\ source' = Append(source, page)
                   /\ odd' = odd + OddIn(page)
                   /\ results' = results + 1
                   /\ k' = 0
                   /\ UNCHANGED <<pc, ckpt, ckptBy, saves, raised>>
            ELSE /\ IF safe_spotify_call(o) \in {"SpotifyQuotaExceeded",
                                                 "SpotifyConnectionError"}
                    THEN /\ ckpt' = save_progress(tracks, track_count)
                         /\ ckptBy' = "abort"
                         /\ saves' = Append(saves, track_count)
                    ELSE UNCHANGED <<ckpt, ckptBy, saves>>
                 /\ raised' = safe_spotify_call(o)
                 /\ pc' = "raised"
                 /\ UNCHANGED <<source, odd, results, k>>
    /\ UNCHANGED <<metadata, songs, track, i, genres, artist_popularity, artists,
                   tracks, track_count, result, skipped, resumed, dvars, mvars>>

\* Lines 269-279 without a next-page cursor: leave the loop, save final progress.
FinalSave ==
    /\ pc = "item"
    /\ k = Len(source[results].items)
    /\ ~MorePages(source[results])
    /\ ckpt' = save_progress(tracks, track_count)
    /\ ckptBy' = "final"
    /\ saves' = Append(saves, track_count)
    /\ pc' = "cleanup"
    /\ UNCHANGED <<metadata, songs, source, odd, results, k, track, i, genres,
                   artist_popularity, artists, tracks, track_count, result, raised,
                   lastCall, calls, skipped, resumed, dvars, mvars>>

\* A completion that leaves the progress file where it is.
RemoveProgressFile_Keep(file) == file

\* Lines 282-283: os.remove(PROGRESS_FILE) when the file exists.
RemoveProgressFile(file) == NoCheckpoint

\* Lines 281-285: remove the progress file and return the tracks.
Cleanup ==
    /\ pc = "cleanup"
    /\ ckpt' = RemoveProgressFile(ckpt)
    /\ ckptBy' = "none"
    /\ result' = tracks
    /\ pc' = "returned"
    /\ UNCHANGED <<metadata, songs, source, odd, results, k, track, i, genres,
                   artist_popularity, artists, tracks, track_count, raised, saves,
                   lastCall, calls, skipped, resumed, dvars, mvars>>

\* Lines 91-92 under a KeyboardInterrupt: save_progress has opened the file
\* for writing (which empties it) and the interrupt stops json.dump before the
\* text is complete. Modelled for the saves of the regular path: the periodic
\* save (line 257, after the append of line 253) and the final save (line 279).
SaveInterrupted ==
    /\ \/ /\ pc = "item"
          /\ k = Len(source[results].items)
          /\ ~MorePages(source[results])
          /\ UNCHANGED <<tracks, odd>>
       \/ /\ pc = "finish"
          /\ Len(artists) # 0
          /\ PeriodicDue(track_count)
          /\ \E link \in {YoutubeLink, NoLink} :
               /\ link = NoLink => odd < MaxOdd
               /\ odd' = IF link = NoLink THEN odd + 1 ELSE odd
               /\ tracks' = AppendTrack(tracks, TrackData(track, link, artist_popularity,
                                                          artists, genres))
    /\ ckpt' = TornCheckpoint
    /\ ckptBy' = "interrupted"
    /\ saves' = Append(saves, track_count)
    /\ raised' = "KeyboardInterrupt"
    /\ pc' = "raised"
    /\ UNCHANGED <<metadata, songs, source, results, k, track, i, genres,
                   artist_popularity, artists, track_count, result, lastCall, calls,
                   skipped, resumed, dvars, mvars>>

\* KeyboardInterrupt is a BaseException: neither safe_spotify_call's nor
\* get_playlist_tracks' handlers (all "except Exception" or narrower) catch it.
HarvestInterrupt ==
    /\ pc \in {"start", "fetch", "item", "artist", "finish", "cleanup"}
    /\ raised' = "KeyboardInterrupt"
    /\ pc' = "raised"
    /\ UNCHANGED <<fvars, source, odd, results, k, track, i, genres, artist_popularity,
                   artists, tracks, track_count, result, saves, lastCall, calls,
                   skipped, resumed, dvars, mvars>>

\* The program is started again: the files stay, the locals are fresh. The
\* record of the served pages is kept only while a checkpoint made from them
\* can still be resumed.
Restart ==
    /\ pc \in {"returned", "raised"}
    /\ pc' = "start"
    /\ results' = 0
    /\ k' = 0
    /\ track' = NullItem
    /\ i' = 0
    /\ genres' = {}
    /\ artist_popularity' = 0
    /\ artists' = <<>>
    /\ tracks' = <<>>
    /\ track_count' = 0
    /\ result' = <<>>
    /\ raised' = "none"
    /\ saves' = <<>>
    /\ lastCall' = NoCall
    /\ calls' = 0
    /\ skipped' = 0
    /\ resumed' = FALSE
    /\ IF load_progress(ckpt).tracks # <<>>
       THEN UNCHANGED <<source, odd>>
       ELSE source' = <<>> /\ odd' = 0
    /\ UNCHANGED <<fvars, dvars, mvars>>

Next ==
    \/ Start
    \/ FetchFirst
    \/ NextItem
    \/ ArtistLookup
    \/ FinishTrack
    \/ NextPage
    \/ FinalSave
    \/ Cleanup
    \/ HarvestInterrupt
    \/ SaveInterrupted
    \/ Restart

Spec == Init /\ [][Next]_vars

\* ------------------------------------------- main.py, fetch_spotify_metadata
\* test_spotify_connection() for the outcome o of sp.current_user(): connected
\* only when the call succeeds with a user. An answer of None makes the
\* function return None, and unpacking it in the caller raises TypeError.
test_spotify_connection(o, userNone) ==
    IF o.exc # "none" THEN "refused"
    ELSE IF userNone THEN "TypeError"
    ELSE "connected"

\* read_playlist_url_from_file: the exception raised for the first line of the
\* file, "none" when the line starts with the playlist prefix.
read_playlist_url_from_file(line) ==
    IF line.head = PlaylistPrefix THEN "none" ELSE "ValueError"

\* main.py 62-73: the connection test comes first; when it fails,
\* fetch_spotify_metadata returns False and main exits with code 1 (232-234).
TestConnection ==
    /\ pc = "connect"
    /\ main_calls' = main_calls + 1
    /\ \E o \in CallOutcomes, userNone \in BOOLEAN :
         /\ userNone => o = OkOutcome
         /\ IF test_spotify_connection(o, userNone) = "connected"
            THEN /\ pc' = "read_url"
                 /\ UNCHANGED <<failure, exit_code>>
            ELSE /\ failure' = "ConnectionTest"
                 /\ exit_code' = 1
                 /\ pc' = "exited"
    /\ UNCHANGED <<fvars, source, odd, results, k, track, i, genres, artist_popularity,
                   artists, tracks, track_count, result, raised, saves, lastCall,
                   calls, skipped, resumed, dvars, url_file>>

\* main.py 75-84 and 126-128: the playlist link is read after the connection
\* test; a line without the playlist prefix raises ValueError, reported as
\* "Invalid input", and main exits with code 1.
ReadUrl ==
    /\ pc = "read_url"
    /\ IF read_playlist_url_from_file(url_file) = "none"
       THEN /\ pc' = "start"
            /\ UNCHANGED <<failure, exit_code>>
       ELSE /\ failure' = "InvalidInput"
            /\ exit_code' = 1
            /\ pc' = "exited"
    /\ UNCHANGED <<fvars, source, odd, results, k, track, i, genres, artist_popularity,
                   artists, tracks, track_count, result, raised, saves, lastCall,
                   calls, skipped, resumed, dvars, url_file, main_calls>>

\* A fetch that takes an empty harvest for a result.
HarvestOk_Always(ts) == TRUE

\* main.py 86: "if not tracks" sends the run to "return False".
HarvestOk(ts) == ts # <<>>

\* main.py 84-133 after get_playlist_tracks, and main 232-246. A non-empty
\* result is written to the metadata file and main goes on to download_mp3s;
\* the function has returned, so its locals and the record of its calls are
\* dropped. An empty result, a raised SpotifyQuotaExceeded or
\* SpotifyConnectionError (handlers at 109-120) and a KeyboardInterrupt
\* (handler of main at 244-246) end the process with code 1. The download
\* phase is followed for results of at most MaxMeta tracks.
AfterHarvest ==
    /\ pc \in {"returned", "raised"}
    /\ Len(result) <= MaxMeta
    /\ IF pc = "returned" /\ HarvestOk(result)
       THEN /\ metadata' = [state |-> "intact", tracks |-> result]
            /\ pc' = "download"
            /\ dpc' = "d_start"
            /\ source' = <<>>
            /\ odd' = 0
            /\ results' = 0
            /\ k' = 0
            /\ track' = NullItem
            /\ i' = 0
            /\ genres' = {}
            /\ artist_popularity' = 0
            /\ artists' = <<>>
            /\ tracks' = <<>>
            /\ track_count' = 0
            /\ saves' = <<>>
            /\ lastCall' = NoCall
            /\ calls' = 0
            /\ skipped' = 0
            /\ resumed' = FALSE
            /\ UNCHANGED <<failure, exit_code>>
       ELSE /\ failure' = IF pc = "returned" THEN "NoTracks" ELSE raised
            /\ exit_code' = 1
            /\ pc' = "exited"
            /\ UNCHANGED <<metadata, dpc, source, odd, results, k, track, i, genres,
                           artist_popularity, artists, tracks, track_count, saves,
                           lastCall, calls, skipped, resumed>>
    /\ UNCHANGED <<ckpt, ckptBy, songs, result, raised, caller, dl_tracks, cur,
                   success_count, fail_count, ds_return, probes, directs, searches,
                   entered, absentAtTurn, validOk, directOk, searchRes, interrupted,
                   download_success, url_file, main_calls>>

\* A track as an earlier run of the program stored it.
StoredTrack(p) ==
    TrackData(MkItem("plain", p), YoutubeLink, ArtistRecord(1).popularity,
              <<[name |-> 1, role |-> "primary"]>>, ArtistRecord(1).genres)

\* The program started through main.py with any first line in the playlist
\* file; an earlier run may have left a progress file (it was aborted at its
\* second track) and an earlier complete run a metadata file of two tracks.
MInit ==
    /\ \/ ckpt = NoCheckpoint /\ ckptBy = "none"
       \/ ckpt = save_progress(<<StoredTrack(1)>>, 1) /\ ckptBy = "abort"
    /\ metadata \in {NoMetadata,
                     [state |-> "intact", tracks |-> <<StoredTrack(1), StoredTrack(2)>>]}
    /\ songs = {}
    /\ source = <<>>
    /\ odd = 0
    /\ pc = "connect"
    /\ results = 0
    /\ k = 0
    /\ track = NullItem
    /\ i = 0
    /\ genres = {}
    /\ artist_popularity = 0
    /\ artists = <<>>
    /\ tracks = <<>>
    /\ track_count = 0
    /\ result = <<>>
    /\ raised = "none"
    /\ saves = <<>>
    /\ lastCall = NoCall
    /\ calls = 0
    /\ skipped = 0
    /\ resumed = FALSE
    /\ DownloadIdle
    /\ url_file \in PlaylistFiles
    /\ main_calls = 0
    /\ failure = "none"
    /\ exit_code = -1

\* ------------------------------------------------------------ download phase
OtherLink == "https://example.com/x"

\* load_metadata(): [] when the file is missing.
load_metadata(file) == IF file.state = "absent" THEN <<>> ELSE file.tracks

\* Python truthiness of track.get("youtube_url").
Truthy(url) == url \notin {NoLink, ""}

\* any(domain in url for domain in ["youtube.com", "youtu.be"])
HasYoutubeDomain(url) == url \in {YoutubeLink, "https://www.youtube.com/watch?v=x"}

\* validate_youtube_url up to the probe: TRUE when the probe is to be issued.
ProbeIssued(url) == Truthy(url) /\ HasYoutubeDomain(url)

\* validate_youtube_url(url) given the probe's outcome: "info", "noinfo", "error".
validate_youtube_url(url, probe) ==
    IF ~Truthy(url) THEN FALSE
    ELSE IF ~HasYoutubeDomain(url) THEN FALSE
    ELSE probe = "info"

\* build_search_query(track): a["role"] raises KeyError on an entry without role.
QueryRaises(t) == \E j \in 1..Len(t.artists) : t.artists[j].role = "missing"

\* download_song without its existence check.
OutputExists_Never(id, files) == FALSE

\* output_path.exists() in download_song.
OutputExists(id, files) == id \in files

\* os.path.exists(output_path) in the loop of download_mp3s.
AlreadyDownloaded(id, files) == id \in files

\* get_download_stats(tracks)['remaining']
Remaining(ts, files) ==
    Len(ts) - Cardinality({j \in 1..Len(ts) : ts[j].spotify_id \in files})

\* download_song validating whatever track.get("youtube_url") holds.
NextAfterCheck_Always(url) == "ds_validate"

\* download_song 113-129: where the call goes after the existence check.
NextAfterCheck(url) == IF Truthy(url) THEN "ds_validate" ELSE "ds_search"

\* download_song ignoring the result of the validation.
NextAfterValidate_Ignore(is_valid) == "ds_direct"

\* download_song 118-127: where the call goes after the validation.
NextAfterValidate(is_valid) == IF is_valid THEN "ds_direct" ELSE "ds_search"

\* The file a successful download leaves on disk.
Downloaded(id, files) == files \cup {id}

Zeros(n) == [j \in 1..n |-> 0]

\* The metadata artifacts of the download phase: track j carries its own id or
\* repeats the first one, a link that is absent, a video link or a foreign
\* link, and artist entries with or without their "role" key.
MetaTrack(id, url, role) ==
    [spotify_id |-> id, youtube_url |-> url, artist_popularity |-> 0,
     artists |-> <<[name |-> 1, role |-> role]>>, genres |-> {}]

MetaTracks(n) ==
    IF n = 0 THEN {<<>>}
    ELSE { [j \in 1..n |-> MetaTrack(IF dupf[j] THEN 1 ELSE j, urlf[j], rolef[j])]
           : dupf \in [1..n -> BOOLEAN],
             urlf \in [1..n -> {NoLink, YoutubeLink, OtherLink}],
             rolef \in [1..n -> {"primary", "missing"}] }

DInit ==
    /\ ckpt = NoCheckpoint
    /\ ckptBy = "none"
    /\ \E n \in 0..MaxMeta :
         /\ metadata \in {NoMetadata} \cup
                         {[state |-> "intact", tracks |-> ts] : ts \in MetaTracks(n)}
         /\ songs \in SUBSET (1..n)
    /\ source = <<>>
    /\ odd = 0
    /\ HarvestLocalsInit
    /\ dpc = "d_start"
    /\ caller = "batch"
    /\ dl_tracks = <<>>
    /\ cur = 0
    /\ success_count = 0
    /\ fail_count = 0
    /\ ds_return = "none"
    /\ probes = <<>>
    /\ directs = <<>>
    /\ searches = <<>>
    /\ entered = <<>>
    /\ absentAtTurn = <<>>
    /\ validOk = FALSE
    /\ directOk = FALSE
    /\ searchRes = "none"
    /\ interrupted = FALSE
    /\ download_success = "none"
    /\ MainIdle

\* main.py 142-171: load the metadata, show the statistics, ask, start the loop.
DlStart ==
    /\ dpc = "d_start"
    /\ LET ts == load_metadata(metadata) IN
       /\ dl_tracks' = ts
       /\ probes' = Zeros(Len(ts))
       /\ directs' = Zeros(Len(ts))
       /\ searches' = Zeros(Len(ts))
       /\ entered' = Zeros(Len(ts))
       /\ absentAtTurn' = [j \in 1..Len(ts) |-> FALSE]
       /\ IF ts = <<>>
          THEN dpc' = "d_early" /\ download_success' = "False"
          ELSE IF Remaining(ts, songs) = 0
          THEN dpc' = "d_early" /\ download_success' = "True"
          ELSE \E user_input \in {"y", "n"} :
                 IF user_input # "y"
                 THEN dpc' = "d_early" /\ download_success' = "False"
                 ELSE dpc' = "d_loop" /\ UNCHANGED download_success
    /\ UNCHANGED <<fvars, hvars, mvars, caller, cur, success_count, fail_count, ds_return,
                   validOk, directOk, searchRes, interrupted>>

\* download_song(track) called on its own, outside download_mp3s.
DirectCall ==
    /\ dpc = "d_start"
    /\ \E j \in 1..Len(load_metadata(metadata)) :
         LET ts == load_metadata(metadata) IN
         /\ dl_tracks' = ts
         /\ cur' = j
         /\ caller' = "direct"
         /\ probes' = Zeros(Len(ts))
         /\ directs' = Zeros(Len(ts))
         /\ searches' = Zeros(Len(ts))
         /\ entered' = [Zeros(Len(ts)) EXCEPT ![j] = 1]
         /\ absentAtTurn' = [x \in 1..Len(ts) |-> x = j /\ ts[j].spotify_id \notin songs]
    /\ dpc' = "ds_check"
    /\ UNCHANGED <<fvars, hvars, mvars, success_count, fail_count, ds_return, validOk,
                   directOk, searchRes, interrupted, download_success>>

\* main.py 173-185: next track of the loop; one already on disk is passed over.
DlNextTrack ==
    /\ dpc = "d_loop"
    /\ cur < Len(dl_tracks)
    /\ cur' = cur + 1
    /\ IF AlreadyDownloaded(dl_tracks[cur + 1].spotify_id, songs)
       THEN UNCHANGED <<dpc, entered, absentAtTurn>>
       ELSE /\ dpc' = "ds_check"
            /\ entered' = [entered EXCEPT ![cur + 1] = @ + 1]
            /\ absentAtTurn' = [absentAtTurn EXCEPT ![cur + 1] = TRUE]
    /\ validOk' = FALSE
    /\ directOk' = FALSE
    /\ searchRes' = "none"
    /\ UNCHANGED <<fvars, hvars, mvars, caller, dl_tracks, success_count, fail_count,
                   ds_return, probes, directs, searches, interrupted,
                   download_success>>

\* download_mp3s without its "except Exception" handler: an exception of
\* download_song ends the batch.
Return_NoHandler(ret) ==
    /\ ds_return' = ret
    /\ IF caller = "batch"
       THEN /\ dpc' = IF ret = "Exception" THEN "d_done" ELSE "d_loop"
            /\ success_count' = IF ret = "True" THEN success_count + 1
                                ELSE success_count
            /\ fail_count' = IF ret = "False" THEN fail_count + 1 ELSE fail_count
       ELSE /\ dpc' = "d_done"
            /\ UNCHANGED <<success_count, fail_count>>

\* main.py 185-194, the caller's side of a finished download_song: ret is
\* "True", "False" or "Exception".
Return(ret) ==
    /\ ds_return' = ret
    /\ IF caller = "batch"
       THEN /\ dpc' = "d_loop"
            /\ success_count' = IF ret = "True" THEN success_count + 1
                                ELSE success_count
            /\ fail_count' = IF ret = "True" THEN fail_count ELSE fail_count + 1
       ELSE /\ dpc' = "d_done"
            /\ UNCHANGED <<success_count, fail_count>>

\* youtube_utils.py 100-114: an existing output file ends the call at once.
DsCheckExisting ==
    /\ dpc = "ds_check"
    /\ LET t == dl_tracks[cur] IN
       IF OutputExists(t.spotify_id, songs)
       THEN Return("True")
       ELSE /\ dpc' = NextAfterCheck(t.youtube_url)
            /\ UNCHANGED <<ds_return, success_count, fail_count>>
    /\ UNCHANGED <<fvars, hvars, mvars, caller, dl_tracks, cur, probes, directs, searches,
                   entered, absentAtTurn, validOk, directOk, searchRes, interrupted,
                   download_success>>

\* youtube_utils.py 118-127 with validate_youtube_url.
DsValidate ==
    /\ dpc = "ds_validate"
    /\ LET url == dl_tracks[cur].youtube_url IN
       \E probe \in (IF ProbeIssued(url) THEN {"info", "noinfo", "error"} ELSE {"none"}) :
         /\ probes' = IF ProbeIssued(url) THEN [probes EXCEPT ![cur] = @ + 1] ELSE probes
         /\ validOk' = validate_youtube_url(url, probe)
         /\ dpc' = NextAfterValidate(validate_youtube_url(url, probe))
    /\ UNCHANGED <<fvars, hvars, mvars, caller, dl_tracks, cur, success_count, fail_count,
                   ds_return, directs, searches, entered, absentAtTurn, directOk,
                   searchRes, interrupted, download_success>>

\* youtube_utils.py 120-125 with download_with_direct_url.
DsDirect ==
    /\ dpc = "ds_direct"
    /\ directs' = [directs EXCEPT ![cur] = @ + 1]
    /\ \E success \in BOOLEAN :
         /\ directOk' = success
         /\ IF success
            THEN /\ songs' = Downloaded(dl_tracks[cur].spotify_id, songs)
                 /\ Return("True")
            ELSE /\ dpc' = "ds_search"
                 /\ UNCHANGED <<songs, ds_return, success_count, fail_count>>
    /\ UNCHANGED <<ckpt, ckptBy, metadata, hvars, mvars, caller, dl_tracks, cur, probes,
                   searches, entered, absentAtTurn, validOk, searchRes, interrupted,
                   download_success>>

\* youtube_utils.py 131-140 with download_with_search: the query is built
\* outside the try, so its KeyError leaves download_song.
DsSearch ==
    /\ dpc = "ds_search"
    /\ searches' = [searches EXCEPT ![cur] = @ + 1]
    /\ IF QueryRaises(dl_tracks[cur])
       THEN Return("Exception") /\ searchRes' = "raised" /\ UNCHANGED songs
       ELSE \E success \in BOOLEAN :
              IF success
              THEN /\ songs' = Downloaded(dl_tracks[cur].spotify_id, songs)
                   /\ searchRes' = "ok"
                   /\ Return("True")
              ELSE Return("False") /\ searchRes' = "failed" /\ UNCHANGED songs
    /\ UNCHANGED <<ckpt, ckptBy, metadata, hvars, mvars, caller, dl_tracks, cur, probes,
                   directs, entered, absentAtTurn, validOk, directOk, interrupted,
                   download_success>>

\* A handler that goes on with the next track ("continue" for "break").
AfterInterrupt_Continue(by) == IF by = "batch" THEN "d_loop" ELSE "d_done"

\* main.py 189-191: "break" leaves the loop for the summary; a lone
\* download_song call has no handler.
AfterInterrupt(by) == IF by = "batch" THEN "d_summary" ELSE "d_done"

\* KeyboardInterrupt while download_song runs: download_mp3s leaves its loop
\* (main.py 189-191); a lone call lets it through.
DlInterrupt ==
    /\ dpc \in {"ds_check", "ds_validate", "ds_direct", "ds_search"}
    /\ interrupted' = TRUE
    /\ dpc' = AfterInterrupt(caller)
    /\ UNCHANGED <<fvars, hvars, mvars, caller, dl_tracks, cur, success_count, fail_count,
                   ds_return, probes, directs, searches, entered, absentAtTurn,
                   validOk, directOk, searchRes, download_success>>

\* main.py 196-215: the summary and the returned value.
DlFinish ==
    /\ \/ dpc = "d_loop" /\ cur = Len(dl_tracks)
       \/ dpc = "d_summary"
    /\ download_success' = IF success_count > 0 THEN "True" ELSE "False"
    /\ dpc' = "d_done"
    /\ UNCHANGED <<fvars, hvars, mvars, caller, dl_tracks, cur, success_count, fail_count,
                   ds_return, probes, directs, searches, entered, absentAtTurn,
                   validOk, directOk, searchRes, interrupted>>

\* main.py 237-242: main prints one of two messages for the value returned by
\* download_mp3s and runs off its end: the process exits with code 0 either way.
MainAfterDownload ==
    /\ dpc \in {"d_early", "d_done"}
    /\ caller = "batch"
    /\ exit_code' = 0
    /\ dpc' = "exited"
    /\ UNCHANGED <<fvars, hvars, caller, dl_tracks, cur, success_count, fail_count,
                   ds_return, probes, directs, searches, entered, absentAtTurn,
                   validOk, directOk, searchRes, interrupted, download_success,
                   url_file, main_calls, failure>>

DNext ==
    \/ DlStart
    \/ DirectCall
    \/ DlNextTrack
    \/ DsCheckExisting
    \/ DsValidate
    \/ DsDirect
    \/ DsSearch
    \/ DlInterrupt
    \/ DlFinish
    \/ MainAfterDownload

DSpec == DInit /\ [][DNext]_vars

\* ------------------------------------------------------- main.py, a whole run
\* One run of main.py: the connection test, the playlist link, the harvest,
\* the metadata file, the download batch, the exit.
MNext ==
    \/ TestConnection
    \/ ReadUrl
    \/ Start
    \/ FetchFirst
    \/ NextItem
    \/ ArtistLookup
    \/ FinishTrack
    \/ NextPage
    \/ FinalSave
    \/ Cleanup
    \/ HarvestInterrupt
    \/ SaveInterrupted
    \/ AfterHarvest
    \/ DlStart
    \/ DlNextTrack
    \/ DsCheckExisting
    \/ DsValidate
    \/ DsDirect
    \/ DsSearch
    \/ DlInterrupt
    \/ DlFinish
    \/ MainAfterDownload

MSpec == MInit /\ [][MNext]_vars

\* ====================================================================
\* Properties of the harvester (specification Spec)
\* ====================================================================

RECURSIVE HarvestItems(_)
\* Ids appended by the for loop over one page when no call fails: null entries
\* are passed over, a track without artists is dropped by the generic handler.
HarvestItems(items) ==
    IF items = <<>> THEN <<>>
    ELSE LET it == Head(items) IN
         IF it.kind = "null" \/ Len(it.artists) = 0
         THEN HarvestItems(Tail(items))
         ELSE <<it.id>> \o HarvestItems(Tail(items))

RECURSIVE UninterruptedIds(_)
\* Ids returned by a harvest of these pages in which no call fails.
UninterruptedIds(pages) ==
    IF pages = <<>> THEN <<>>
    ELSE HarvestItems(pages[1].items) \o UninterruptedIds(Tail(pages))

RECURSIVE Entries(_)
\* The entries of a sequence of pages, in order.
Entries(pages) ==
    IF pages = <<>> THEN <<>> ELSE pages[1].items \o Entries(Tail(pages))

NonNull(it) == it.kind # "null"

Ids(ts) == [j \in 1..Len(ts) |-> ts[j].spotify_id]

\* The service rejected the call.
Rejected(o) == o.exc # "none"

\* Rate limit (HTTP 429) or a "quota exceeded" message.
QuotaClass(o) == o.exc = "SpotifyException" /\ (o.http_status = 429 \/ o.quota_msg)

\* Authentication failure (HTTP 401) or a failure below the HTTP layer.
ConnectionClass(o) ==
    \/ o.exc = "Exception"
    \/ o.exc = "SpotifyException" /\ o.http_status = 401

HarvestEnded == pc \in {"returned", "raised"}

\* The pages served are the whole playlist.
SourceComplete == source # <<>> /\ ~source[Len(source)].next

\* C1 (as claimed): a run aborted by a quota or connection failure, followed by
\* a run that resumes from its checkpoint, ends with the tracks of one
\* uninterrupted harvest of the same playlist: same count, none dropped, none
\* duplicated.
C1_ResumeEqualsUninterrupted ==
    (pc = "returned" /\ resumed /\ ckptBy = "abort" /\ SourceComplete)
        => /\ Len(result) = Len(UninterruptedIds(source))
           /\ Ids(result) = UninterruptedIds(source)

\* C2 (as claimed): a call rejected by the catalog service, at whichever call
\* site, makes harvest end by raising SpotifyQuotaExceeded or
\* SpotifyConnectionError; harvest returns only when no call was rejected.
C2_RejectionAlwaysRaises ==
    (HarvestEnded /\ Rejected(lastCall.outcome))
        => (pc = "raised" /\ raised \in {"SpotifyQuotaExceeded", "SpotifyConnectionError"})

\* C2 (amended): a call rejected at an artist lookup or at a next-page fetch
\* makes harvest raise SpotifyQuotaExceeded or SpotifyConnectionError; a
\* rejected first playlist-page fetch makes harvest return the empty sequence
\* without raising; harvest raises one of the two errors only after a rejected
\* call and returns a non-empty sequence only when no call was rejected.
C2_RejectionRaisesExceptFirstPage ==
    HarvestEnded =>
        /\ (Rejected(lastCall.outcome) /\ lastCall.site \in {"artist", "next"})
              => (pc = "raised" /\ raised \in {"SpotifyQuotaExceeded",
                                                 "SpotifyConnectionError"})
        /\ (Rejected(lastCall.outcome) /\ lastCall.site = "playlist_items")
              => (pc = "returned" /\ result = <<>> /\ raised = "none")
        /\ (pc = "raised" /\ raised # "KeyboardInterrupt")
              => (Rejected(lastCall.outcome) /\ lastCall.site \in {"artist", "next"})
        /\ (pc = "returned" /\ result # <<>>) => ~Rejected(lastCall.outcome)

\* Witness of C2: the first page fetch was rejected with HTTP 429 and harvest
\* returned the empty sequence.
C2_Witness ==
    /\ pc = "returned"
    /\ lastCall.site = "playlist_items"
    /\ lastCall.outcome.http_status = 429
    /\ result = <<>>
    /\ raised = "none"

\* C3 (as claimed, for the errors that are of neither the quota nor the
\* connection class): an artist lookup that fails with such an error does not
\* abort the harvest.
C3_NonQuotaLookupFailureKept ==
    (lastCall.site = "artist" /\ Rejected(lastCall.outcome)
                              /\ ~QuotaClass(lastCall.outcome)
                              /\ ~ConnectionClass(lastCall.outcome))
        => raised \notin {"SpotifyQuotaExceeded", "SpotifyConnectionError"}

\* C4: when the artist lookup of the k-th non-null track is rejected with a
\* quota-class error and no earlier track was dropped by an error, harvest
\* raises SpotifyQuotaExceeded and the checkpoint holds current_index = k-1 and
\* exactly the first k-1 tracks of the playlist.
C4_QuotaAbortCheckpoint ==
    (pc = "raised" /\ lastCall.site = "artist" /\ QuotaClass(lastCall.outcome)
                   /\ skipped = 0)
        => /\ raised = "SpotifyQuotaExceeded"
           /\ ckpt.state = "intact"
           /\ ckpt.current_index = track_count - 1
           /\ Len(ckpt.tracks) = track_count - 1
           /\ ckpt.total_tracks = track_count - 1
           /\ \A j \in 1..Len(ckpt.tracks) :
                ckpt.tracks[j].spotify_id = SelectSeq(Entries(source), NonNull)[j].id

\* Witness of C4: the lookup of track 11 is rejected right after the periodic
\* save of track 10.
C4_Witness ==
    /\ pc = "raised"
    /\ lastCall.site = "artist"
    /\ QuotaClass(lastCall.outcome)
    /\ skipped = 0
    /\ track_count = SAVE_EVERY + 1
    /\ ckpt.current_index = SAVE_EVERY

\* C5: the cursors of the checkpoints written by one run never decrease.
C5_CursorsMonotonic ==
    \A a, b \in 1..Len(saves) : a < b => saves[a] <= saves[b]

\* Witness of C5: a periodic save followed by the saves of an abort.
C5_Witness ==
    /\ pc = "raised"
    /\ Len(saves) >= 3
    /\ saves[1] = SAVE_EVERY
    /\ ckptBy = "abort"

\* C10 (as claimed): when a user interrupt stops the harvest inside the page
\* loop, a checkpoint holding the tracks gathered so far has been written.
C10_InterruptCheckpoints ==
    (pc = "raised" /\ raised = "KeyboardInterrupt" /\ results > 0 /\ tracks # <<>>)
        => (ckpt.state = "intact" /\ ckpt.tracks = tracks)

\* C14: when a checkpoint with a non-empty track sequence exists and the
\* resumption is accepted, harvest returns exactly the checkpoint's tracks and
\* issues no catalog-service call and no save.
C14_ResumeReturnsCheckpoint ==
    (pc = "returned" /\ resumed)
        => /\ ckpt.state = "intact"
           /\ result # <<>>
           /\ result = ckpt.tracks
           /\ calls = 0
           /\ lastCall = NoCall
           /\ saves = <<>>

\* Witness of C14: a resumed run that returned a checkpoint of two tracks or more.
C14_Witness ==
    /\ pc = "returned"
    /\ resumed
    /\ Len(result) >= 2
    /\ calls = 0

\* C15 (as claimed): whatever stops a save of gathered tracks, the progress
\* file is never left empty or partly written: it is absent or holds a
\* complete checkpoint.
C15_SaveAtomic ==
    (saves # <<>> /\ tracks # <<>>) => ckpt.state \in {"absent", "intact"}

\* C16: loading never raises. A file that is absent or torn loads as ([], 0),
\* also when get_playlist_tracks loads it at its start; a file written by a
\* completed save of this run loads as the cursor and the tracks of that save.
C16_LoadTotal ==
    LET p == load_progress(ckpt) IN
        /\ p.raises = "none"
        /\ ckpt.state # "intact" => (p.tracks = <<>> /\ p.current_index = 0)
        /\ (pc = "raised" /\ calls = 0 /\ saves = <<>>) => raised = "KeyboardInterrupt"
        /\ (ckpt.state = "intact" /\ saves # <<>>)
              => /\ p.current_index = saves[Len(saves)]
                 /\ Len(p.tracks) <= Len(tracks)
                 /\ p.tracks = SubSeq(tracks, 1, Len(p.tracks))
                 /\ ckptBy \in {"abort", "final"} => p.tracks = tracks

\* Witness of C16: a run that found a torn progress file went on to fetch the
\* playlist afresh.
C16_Witness ==
    /\ ckpt.state = "corrupt"
    /\ pc = "item"
    /\ raised = "none"
    /\ tracks # <<>>

\* C17 (as claimed): the sequence a harvest returns never holds two tracks
\* with the same catalog id.
C17_UniqueCatalogIds ==
    pc = "returned"
        => \A a, b \in 1..Len(result) :
             a # b => result[a].spotify_id # result[b].spotify_id

\* C18 (as claimed): the cursor of every checkpoint on disk is at most the
\* number of tracks stored with it.
C18_CursorWithinTracks ==
    ckpt.state = "intact" => ckpt.current_index <= Len(ckpt.tracks)

\* C19 (as claimed): while the page loop runs, fewer than SAVE_EVERY tracks of
\* the running sequence are missing from the checkpoint this run wrote last
\* (from nothing, when this run has not saved yet).
C19_CheckpointLag ==
    pc \in {"item", "artist", "finish"}
        => Len(tracks) - (IF saves = <<>> THEN 0 ELSE Len(ckpt.tracks)) < SAVE_EVERY

\* C20: whenever harvest raises SpotifyQuotaExceeded or SpotifyConnectionError,
\* the abort handler has written a checkpoint that holds exactly the tracks
\* appended so far.
C20_AbortCheckpointHoldsTracks ==
    (pc = "raised" /\ raised \in {"SpotifyQuotaExceeded", "SpotifyConnectionError"})
        => /\ ckpt.state = "intact"
           /\ ckptBy = "abort"
           /\ saves # <<>>
           /\ ckpt.tracks = tracks
           /\ ckpt.total_tracks = Len(tracks)

\* Witness of C20: the fetch of the second page is rejected with a
\* connection-class error after a full first page was appended.
C20_Witness ==
    /\ pc = "raised"
    /\ raised = "SpotifyConnectionError"
    /\ lastCall.site = "next"
    /\ Len(tracks) = PageLimit
    /\ ckpt.tracks = tracks

\* C21: a harvest that went through all pages first writes the final checkpoint,
\* which holds the complete running sequence and the count of processed tracks,
\* and then removes the progress file: when it has returned its tracks no
\* progress file exists.
C21_FinalSaveThenRemove ==
    /\ pc = "cleanup"
          => /\ ckpt.state = "intact"
             /\ ckptBy = "final"
             /\ ckpt.tracks = tracks
             /\ ckpt.current_index = track_count
             /\ saves # <<>>
             /\ saves[Len(saves)] = track_count
             /\ SourceComplete
    /\ (pc = "returned" /\ ~resumed /\ results > 0)
          => /\ ckpt.state = "absent"
             /\ result = tracks
             /\ saves # <<>>
             /\ saves[Len(saves)] = track_count
             /\ SourceComplete

\* Witness of C21: a harvest of two pages has returned its tracks, the last
\* save was the final one, and no progress file is left.
C21_Witness ==
    /\ pc = "returned"
    /\ ~resumed
    /\ Len(source) = 2
    /\ Len(result) > PageLimit
    /\ saves = <<track_count>>
    /\ ckpt.state = "absent"

LoopPcs == {"item", "artist", "finish"}

\* Entries of the playlist the for loop has taken so far.
Taken == IF results = 0 THEN 0 ELSE Served(SubSeq(source, 1, results - 1)) + k

\* Position of the run inside the page loop: it orders the steps of one track
\* (lookups, completion, back at the for loop) after the taking of its entry.
Progress ==
    5 * Taken + results + (CASE pc = "artist" -> i
                             [] pc = "finish" -> 3
                             [] pc = "item"   -> 4
                             [] OTHER         -> 0)

ProgressBound == 6 * MaxItems + 5

\* C22: the page loop is left for the final save only at a page without a
\* next-page cursor, after all entries of all pages were taken, page after
\* page in the order served; otherwise it is left only by a quota or
\* connection error or an interrupt. Every step inside the loop advances a
\* bounded position, so the loop terminates.
C22_LoopEndsWithoutNextCursor ==
    [][ /\ (pc \in LoopPcs /\ pc' \in LoopPcs)
              => (Progress' > Progress /\ Progress' <= ProgressBound)
        /\ (pc \in LoopPcs /\ pc' \notin LoopPcs) => pc' \in {"cleanup", "raised"}
        /\ (pc \in LoopPcs /\ pc' = "cleanup")
              => /\ pc = "item"
                 /\ results = Len(source)
                 /\ k = Len(source[results].items)
                 /\ ~source[results].next
                 /\ Taken = Served(source)
                 /\ \A j \in 1..(Len(source) - 1) : source[j].next
        /\ (pc \in LoopPcs /\ pc' = "raised")
              => raised' \in {"SpotifyQuotaExceeded", "SpotifyConnectionError",
                              "KeyboardInterrupt"}
        /\ (pc \in LoopPcs /\ results' # results)
              => /\ results' = results + 1
                 /\ source[results].next
                 /\ k = Len(source[results].items)
                 /\ Len(source') = results'
                 /\ SubSeq(source', 1, results) = source
                 /\ lastCall'.site = "next" ]_vars

\* Witness of C22: a harvest of three pages has left the loop at the third.
C22_Witness ==
    /\ pc = "cleanup"
    /\ results = 3
    /\ Len(source) = 3
    /\ source[1].next /\ source[2].next /\ ~source[3].next
    /\ Taken = Served(source)
    /\ calls >= 3

\* An entry the loop appends when its turn is over: a track with artists.
Appendable(it) == it.kind # "null" /\ it.artists # <<>>

\* Entries whose turn is over: the entry at hand is not among them while its
\* lookups and its completion are still to come.
Settled == IF pc \in {"artist", "finish"} THEN Taken - 1 ELSE Taken

\* In a fresh run the running sequence is, in order, one track for each
\* appendable entry whose turn is over, counted from the first entry served.
RunningMatchesSource ==
    (~resumed /\ results > 0 /\ pc \in LoopPcs \cup {"cleanup", "returned"})
        => LET done == SelectSeq(SubSeq(Entries(source), 1, Settled), Appendable)
           IN  Ids(tracks) = [j \in 1..Len(done) |-> done[j].id]

\* C23: at every point of a fresh harvest the running sequence is an
\* order-preserving subsequence of the non-null entries taken so far, one
\* track per entry at most; a step inside the loop leaves the tracks already
\* appended in place and adds at most one at the end; the loop starts at the
\* first entry of the first page whatever cursor the progress file holds.
C23_RunningSubsequence ==
    [][ /\ RunningMatchesSource'
        /\ pc \in LoopPcs
              => /\ Len(tracks') \in {Len(tracks), Len(tracks) + 1}
                 /\ SubSeq(tracks', 1, Len(tracks)) = tracks
        /\ (pc = "fetch" /\ pc' = "item")
              => (results' = 1 /\ k' = 0 /\ tracks' = <<>> /\ track_count' = 0) ]_vars

\* Witness of C23: a fresh run that found a progress file with a cursor above
\* zero has appended the first two entries of the playlist.
C23_Witness ==
    /\ pc = "item"
    /\ ~resumed
    /\ saves = <<>>
    /\ ckpt.state = "intact"
    /\ ckpt.current_index > 0
    /\ Len(tracks) >= 2
    /\ tracks[1].spotify_id = source[1].items[1].id
    /\ tracks[2].spotify_id = source[1].items[2].id

\* ====================================================================
\* Properties of the download resolver (specification DSpec)
\* ====================================================================

RECURSIVE Sum(_)
Sum(f) == IF f = <<>> THEN 0 ELSE Head(f) + Sum(Tail(f))

InDownloadSong == dpc \in {"ds_check", "ds_validate", "ds_direct", "ds_search"}

\* download_song has just returned from a call on a track whose output file
\* was absent.
CallFinished ==
    /\ dpc \in {"d_loop", "d_done"}
    /\ ~interrupted
    /\ cur \in 1..Len(dl_tracks)
    /\ absentAtTurn[cur]

\* C6: for a track whose output file exists, download_song issues no validation
\* probe, no direct download and no search download, and returns True at once;
\* a download phase over tracks already on disk issues no hosting-service call.
C6_NoCallWhenFileExists ==
    /\ \A j \in 1..Len(dl_tracks) :
         ~absentAtTurn[j] => (probes[j] = 0 /\ directs[j] = 0 /\ searches[j] = 0)
    /\ (cur \in 1..Len(dl_tracks) /\ entered[cur] > 0 /\ ~absentAtTurn[cur])
         => /\ dpc \in {"ds_check", "d_done"}
            /\ (dpc = "d_done" /\ ~interrupted) => ds_return = "True"

\* Witness of C6: download_song was called on a track whose file exists and
\* has returned True.
C6_Witness ==
    /\ dpc = "d_done"
    /\ cur \in 1..Len(dl_tracks)
    /\ entered[cur] = 1
    /\ ~absentAtTurn[cur]
    /\ dl_tracks[cur].youtube_url = YoutubeLink
    /\ ds_return = "True"

\* C7: a validation probe or a direct download is issued only for a track with
\* a non-null youtube_url; with the link absent, download_song goes from the
\* existence check straight to the search.
C7_DirectOnlyWithLink ==
    /\ \A j \in 1..Len(dl_tracks) :
         (probes[j] > 0 \/ directs[j] > 0) => dl_tracks[j].youtube_url # NoLink
    /\ (InDownloadSong /\ dl_tracks[cur].youtube_url = NoLink)
         => dpc \in {"ds_check", "ds_search"}

\* Witness of C7: a track without link is in the search fallback, no probe made.
C7_Witness ==
    /\ dpc = "ds_search"
    /\ dl_tracks[cur].youtube_url = NoLink
    /\ probes[cur] = 0
    /\ directs[cur] = 0

\* C8: in a call on a track whose file is absent, the search is attempted once
\* exactly when no direct download succeeded and never after a successful one,
\* a direct download is attempted only after a successful validation, and the
\* call reports failure exactly when the search was attempted and failed.
C8_FallbackOrder ==
    /\ \A j \in 1..Len(dl_tracks) :
         /\ probes[j] <= entered[j]
         /\ directs[j] <= probes[j]
         /\ searches[j] <= entered[j]
    /\ dpc = "ds_direct" => validOk
    /\ ~(InDownloadSong /\ directOk)
    /\ CallFinished =>
         /\ entered[cur] = 1
         /\ searches[cur] = IF directOk THEN 0 ELSE 1
         /\ directs[cur] = 1 => (validOk /\ probes[cur] = 1)
         /\ (ds_return # "True") <=> (searches[cur] = 1 /\ searchRes \in {"failed", "raised"})
         /\ (ds_return = "True") <=> (directOk \/ searchRes = "ok")
         /\ (ds_return = "False") <=> (searchRes = "failed")

\* Witness of C8: validation succeeded, the direct download failed, the search
\* failed, and the call returned False.
C8_Witness ==
    /\ CallFinished
    /\ validOk
    /\ directs[cur] = 1
    /\ ~directOk
    /\ searches[cur] = 1
    /\ searchRes = "failed"
    /\ ds_return = "False"

\* C9: in download_mp3s a failed download or an exception of download_song
\* never ends the batch: calls are made in metadata order, at most one per
\* track, and when the batch is over every track whose file was absent at its
\* turn has had its call, and the calls made equal the successes plus the
\* failures counted.
C9_BatchNeverAborted ==
    caller = "batch" =>
        /\ \A j \in 1..Len(dl_tracks) :
             /\ entered[j] <= 1
             /\ entered[j] = 1 => j <= cur
             /\ entered[j] = (IF absentAtTurn[j] THEN 1 ELSE 0)
        /\ success_count + fail_count = Sum(entered) - (IF InDownloadSong THEN 1 ELSE 0)
                                        - (IF interrupted THEN 1 ELSE 0)
        /\ (dpc = "d_done" /\ ~interrupted) =>
             /\ cur = Len(dl_tracks)
             /\ \A j \in 1..Len(dl_tracks) :
                  entered[j] = 0 => dl_tracks[j].spotify_id \in songs

\* Witness of C9: the first call raised, the second one was still made and
\* succeeded.
C9_Witness ==
    /\ caller = "batch"
    /\ dpc = "d_done"
    /\ ~interrupted
    /\ Len(dl_tracks) = 2
    /\ entered = <<1, 1>>
    /\ dl_tracks[1].artists[1].role = "missing"
    /\ fail_count = 1
    /\ success_count = 1

\* C11: once a KeyboardInterrupt has reached the batch while download_song was
\* running, no later track is entered and nothing more is requested, and no
\* step of the download phase ever removes an audio file.
C11_InterruptStopsBatch ==
    [][ /\ songs \subseteq songs'
        /\ (interrupted /\ caller = "batch")
              => /\ interrupted'
                 /\ cur' = cur
                 /\ entered' = entered
                 /\ probes' = probes
                 /\ directs' = directs
                 /\ searches' = searches
                 /\ songs' = songs
        /\ (interrupted' /\ caller' = "batch")
              => /\ dpc' \in {"d_summary", "d_done", "exited"}
                 /\ \A j \in (cur' + 1)..Len(dl_tracks') : entered'[j] = 0 ]_vars

\* Witness of C11: the batch was interrupted during its first track, ended
\* with its summary, and the second track, not on disk, was never entered.
C11_Witness ==
    /\ interrupted
    /\ caller = "batch"
    /\ dpc = "d_done"
    /\ cur = 1
    /\ Len(dl_tracks) = 2
    /\ entered = <<1, 0>>
    /\ dl_tracks[2].spotify_id \notin songs

\* C12 (as claimed): when the metadata file is missing at the start of the
\* download phase, no download is attempted, download_mp3s reports failure and
\* the process exits with a non-zero code.
C12_MissingMetadataExitsNonZero ==
    (dpc = "exited" /\ metadata.state = "absent")
        => /\ download_success = "False"
           /\ Sum(entered) + Sum(probes) + Sum(directs) + Sum(searches) = 0
           /\ exit_code # 0

\* ====================================================================
\* Properties of the orchestrator's first phase (specification MSpec)
\* ====================================================================

\* C13 (as claimed): when the run fails with "Invalid input" for the playlist
\* link, no catalog-service call has been issued before that failure.
C13_InvalidInputBeforeNetwork ==
    (pc = "exited" /\ failure = "InvalidInput") => main_calls + calls = 0

\* C24: the metadata file is written, and the download phase entered, only in
\* the step that follows a harvest which returned a non-empty sequence, and
\* the file then holds that sequence; after a harvest that raised
\* SpotifyQuotaExceeded or SpotifyConnectionError or returned no track, the
\* run leaves the metadata file and the audio files as they are, enters no
\* download and exits with code 1.
C24_DownloadOnlyAfterMetadata ==
    [][ /\ metadata' # metadata
              => /\ pc = "returned"
                 /\ result # <<>>
                 /\ metadata' = [state |-> "intact", tracks |-> result]
        /\ (dpc = "idle" /\ dpc' # "idle")
              => /\ pc = "returned"
                 /\ result # <<>>
                 /\ metadata' = [state |-> "intact", tracks |-> result]
                 /\ dpc' = "d_start"
                 /\ exit_code' = -1
        /\ dpc' = "d_loop" => dl_tracks' = result'
        /\ ((pc = "raised" /\ raised \in {"SpotifyQuotaExceeded",
                                             "SpotifyConnectionError"})
             \/ (pc = "returned" /\ result = <<>>))
              => /\ metadata' = metadata
                 /\ songs' = songs
                 /\ dpc' = "idle"
                 /\ entered' = <<>>
                 /\ pc' = "exited"
                 /\ exit_code' = 1 ]_vars

\* Witness of C24: the harvest was aborted by a quota error after its first
\* track; the run has exited with code 1, the metadata file of the earlier run
\* is as it was and no download was entered.
C24_Witness ==
    /\ pc = "exited"
    /\ failure = "SpotifyQuotaExceeded"
    /\ exit_code = 1
    /\ Len(tracks) = 1
    /\ ckpt.tracks = tracks
    /\ metadata = [state |-> "intact", tracks |-> <<StoredTrack(1), StoredTrack(2)>>]
    /\ dpc = "idle"
    /\ entered = <<>>

====
